---- MODULE Spec2Model ----
(***************************************************************************)
(* Model of example-app-go-gorm (src/main.go): the funds transfer          *)
(* transferFunds and the seeding insertRows, each run as the unit of work  *)
(* of crdbgorm.ExecuteTx against one "accounts" table of a serializable,   *)
(* conflict-aborting store, and main's sequence seed, pick, transfer,      *)
(* delete.                                                                 *)
(*                                                                         *)
(* Three specifications share the actions:                                 *)
(*   Spec      two concurrent callers, each calling                        *)
(*             ExecuteTx(transferFunds) once with arguments of its choice, *)
(*             over a table that already holds rows;                       *)
(*   SpecMain  the program main, alone on an empty table;                  *)
(*   SpecOps   one caller making any sequence of seedings, transfers and   *)
(*             deletions over a table that already holds rows.             *)
(*                                                                         *)
(* GORM and cockroach-go are imported libraries.  What the model takes     *)
(* from them is stated where it is used: First leaves its destination      *)
(* untouched when it fails, Save is an upsert (INSERT when the primary key *)
(* is the zero value), ExecuteTx re-runs the unit of work after an error   *)
(* of SQLSTATE 40001 and returns every other error.                        *)
(***************************************************************************)
EXTENDS Integers, Sequences, FiniteSets

(* ------------------------------------------------------------------ *)
(* Program constants                                                    *)
(* ------------------------------------------------------------------ *)

\* const transferAmt int = 100
transferAmt == 100

\* rand.Intn(10000): the exclusive upper end of the random part of a balance
RandRange == 10000

\* uuid.Nil, the zero value of Account.ID in "var fromAccount Account"
NilUUID == 0

(* ------------------------------------------------------------------ *)
(* Bounds of the model                                                  *)
(* ------------------------------------------------------------------ *)

\* retries ExecuteTx makes before it gives up (the library's limit, scaled down)
MaxRetries == 1

\* rows main asks insertRows for (main passes 5; scaled down)
NumRows == 2

\* operations the caller of SpecOps makes
MaxOps == 2

(* ------------------------------------------------------------------ *)
(* Input sets                                                           *)
(* ------------------------------------------------------------------ *)

\* the concurrent callers of Spec; main is caller 1 of SpecMain
Callers == {1, 2}

\* the caller that is main in SpecMain and the one caller of SpecOps
MainCaller == CHOOSE c \in Callers : \A d \in Callers : c <= d

\* values rand.Intn(RandRange) is drawn from: both ends of its range
RandIntn == {0, RandRange - 1}

\* balances of the rows Spec starts with: seeded balances and what earlier
\* transfers leave of them
InitBalances == {50, transferAmt, 250}

\* ids of the rows the table of Spec and SpecOps holds at the start
SeededIDs == {1, 2}

\* an id that never has a row
MissingID == Cardinality(SeededIDs) + 1

\* ids a caller of Spec passes
TransferIDs == SeededIDs \cup {MissingID}

\* rows a caller of SpecOps asks insertRows for
SeedSizes == {1}

\* amounts a caller of Spec passes
Amounts == {transferAmt}

(* ------------------------------------------------------------------ *)
(* Errors                                                               *)
(* ------------------------------------------------------------------ *)
ErrNil == "nil"
\* SQLSTATE 40001, the error ExecuteTx retries
ErrRetry == "RetryableConflict"
\* gorm.ErrRecordNotFound
ErrNotFound == "RecordNotFound"
\* SQLSTATE 25P02: the transaction is aborted, commands ignored
ErrTxAborted == "TxAborted"
\* the fmt.Errorf of transferFunds
ErrBalance == "BalanceLowerThanAmount"
\* any other error of the store
ErrStore == "StoreError"
\* ExecuteTx gave up retrying
ErrMaxRetries == "MaxRetriesExceeded"

VARIABLES
  accounts,     \* the committed rows of the accounts table: id -> Balance
  nextID,       \* the next id uuid.New() or uuid_generate_v4() yields
  acctIDs,      \* the global acctIDs
  mainpc,       \* where main is
  deleteErr,    \* what deleteAccounts returned, which main drops
  op,           \* per caller: the unit of work of its ExecuteTx call
  pc,           \* per caller: where that call is
  runs,         \* per caller: operations started
  fromID, toID, amount,   \* per caller: the arguments of transferFunds
  numRows, i,   \* per caller: the argument and the loop index of insertRows
  fromAccount, toAccount, \* per caller: the locals of transferFunds
  fromErr, toErr,         \* per caller: the errors of the two db.First, which the code drops
  rset,         \* per caller: what the transaction has read
  wset,         \* per caller: what the transaction has written, not yet committed
  txAborted,    \* per caller: the transaction is in the aborted state
  retryCount,   \* per caller: retryCount of ExecuteTx
  result,       \* per caller: what ExecuteTx returned
  wrote         \* per caller: this call of ExecuteTx has changed committed rows

storeVars == <<accounts, nextID>>
mainVars == <<mainpc, deleteErr>>
argVars == <<op, runs, fromID, toID, amount, numRows>>
locVars == <<i, fromAccount, toAccount, fromErr, toErr>>
txVars == <<rset, wset, txAborted>>
ctlVars == <<pc, retryCount, result>>
vars == <<accounts, nextID, acctIDs, mainpc, deleteErr, op, pc, runs, fromID, toID, amount,
          numRows, i, fromAccount, toAccount, fromErr, toErr, rset, wset,
          txAborted, retryCount, result, wrote>>

(* ------------------------------------------------------------------ *)
(* Account rows and the table                                           *)
(* ------------------------------------------------------------------ *)

\* type Account struct { ID; Balance }
Account(id, bal) == [ID |-> id, Balance |-> bal]

\* var fromAccount Account
ZeroAccount == Account(NilUUID, 0)

EmptyRows == <<>>

\* the table tbl with row id set to bal (inserted when it has no such row)
Upsert(tbl, id, bal) ==
  [x \in DOMAIN tbl \cup {id} |-> IF x = id THEN bal ELSE tbl[x]]

\* the table tbl with every write of w applied
Apply(tbl, w) ==
  [x \in DOMAIN tbl \cup DOMAIN w |-> IF x \in DOMAIN w THEN w[x] ELSE tbl[x]]

\* a DELETE without its WHERE clause
DeleteAll(tbl, ids) == EmptyRows

\* the table tbl without the rows whose id is in ids
DeleteIn(tbl, ids) == [x \in DOMAIN tbl \ ids |-> tbl[x]]

Range(s) == {s[k] : k \in DOMAIN s}

RECURSIVE SumOver(_, _)
SumOver(tbl, ids) ==
  IF ids = {} THEN 0
  ELSE LET x == CHOOSE y \in ids : TRUE
       IN tbl[x] + SumOver(tbl, ids \ {x})

\* the sum of all balances of the table
Total(tbl) == SumOver(tbl, DOMAIN tbl)

(* ------------------------------------------------------------------ *)
(* The arithmetic of the program                                        *)
(* ------------------------------------------------------------------ *)

\* a balance check that rejects only a negative balance
InsufficientOnlyNegative(bal, amt) == bal < 0

\* if fromAccount.Balance < amount
Insufficient(bal, amt) == bal < amt

\* fromAccount.Balance -= amount
Debit(bal, amt) == bal - amt

\* a credit that assigns the amount instead of adding it
CreditAssign(bal, amt) == amt

\* toAccount.Balance += amount
Credit(bal, amt) == bal + amt

\* a new balance with the transfer amount subtracted instead of added
NewBalanceMinus(r) == r - transferAmt

\* newBalance := rand.Intn(10000) + transferAmt
NewBalance(r) == r + transferAmt

\* the balances insertRows gives a new row
SeedBalances == {NewBalance(r) : r \in RandIntn}

(* ------------------------------------------------------------------ *)
(* The store inside a transaction                                       *)
(*                                                                      *)
(* A transaction reads committed rows (or its own writes), buffers its  *)
(* writes, and commits only if every row it read is still as it read    *)
(* it; the store may also answer any statement or the commit with the   *)
(* retryable error, which leaves the transaction aborted.  Every        *)
(* committed history is then a serial one, in the order of the commits. *)
(* ------------------------------------------------------------------ *)

\* what tx.First(&dest, id) can do for caller c: the destination afterwards,
\* the error, the read set and whether the transaction is aborted
FirstOutcomes(c, dest, id) ==
  IF txAborted[c]
  THEN {[acct |-> dest, err |-> ErrTxAborted, rset |-> rset[c], aborted |-> TRUE]}
  ELSE {[acct |-> dest, err |-> ErrRetry, rset |-> rset[c], aborted |-> TRUE]}
       \cup
       { IF id \in DOMAIN wset[c]
         THEN [acct |-> Account(id, wset[c][id]), err |-> ErrNil,
               rset |-> rset[c], aborted |-> FALSE]
         ELSE IF id \in DOMAIN accounts
         THEN [acct |-> Account(id, accounts[id]), err |-> ErrNil,
               rset |-> rset[c] \cup {[id |-> id, found |-> TRUE, bal |-> accounts[id]]},
               aborted |-> FALSE]
         ELSE [acct |-> dest, err |-> ErrNotFound,
               rset |-> rset[c] \cup {[id |-> id, found |-> FALSE, bal |-> 0]},
               aborted |-> FALSE] }

\* what tx.Save(&acct) can do for caller c: an UPDATE of the row acct.ID, or
\* an INSERT of a row with a generated id when acct.ID is the zero value
SaveOutcomes(c, acct) ==
  IF txAborted[c]
  THEN {[acct |-> acct, err |-> ErrTxAborted, wset |-> wset[c], aborted |-> TRUE,
         nextID |-> nextID]}
  ELSE {[acct |-> acct, err |-> ErrRetry, wset |-> wset[c], aborted |-> TRUE,
         nextID |-> nextID]}
       \cup
       { IF acct.ID = NilUUID
         THEN [acct |-> Account(nextID, acct.Balance), err |-> ErrNil,
               wset |-> Upsert(wset[c], nextID, acct.Balance), aborted |-> FALSE,
               nextID |-> nextID + 1]
         ELSE [acct |-> acct, err |-> ErrNil,
               wset |-> Upsert(wset[c], acct.ID, acct.Balance), aborted |-> FALSE,
               nextID |-> nextID] }

\* every row the transaction of c read is still as it read it
Validates(c) ==
  \A r \in rset[c] :
    IF r.found
    THEN r.id \in DOMAIN accounts /\ accounts[r.id] = r.bal
    ELSE r.id \notin DOMAIN accounts

(* ------------------------------------------------------------------ *)
(* crdbgorm.ExecuteTx                                                   *)
(* ------------------------------------------------------------------ *)

\* the first step of the unit of work
FnEntry(o) == IF o = "seed" THEN "create" ELSE "readFrom"

\* the transaction of c is new (BEGIN, or ROLLBACK TO SAVEPOINT)
FreshTx(c) ==
  /\ rset' = [rset EXCEPT ![c] = {}]
  /\ wset' = [wset EXCEPT ![c] = EmptyRows]
  /\ txAborted' = [txAborted EXCEPT ![c] = FALSE]

\* the unit of work starts with its locals at their zero values
FreshLocals(c) ==
  /\ i' = [i EXCEPT ![c] = 0]
  /\ fromAccount' = [fromAccount EXCEPT ![c] = ZeroAccount]
  /\ toAccount' = [toAccount EXCEPT ![c] = ZeroAccount]
  /\ fromErr' = [fromErr EXCEPT ![c] = ErrNil]
  /\ toErr' = [toErr EXCEPT ![c] = ErrNil]

\* a classification that retries every error
errIsRetryableAlways(err) == TRUE

\* the error err is one ExecuteTx retries
errIsRetryable(err) == err = ErrRetry

\* ExecuteTx returns err to its caller, the transaction ended
Return(c, err) ==
  /\ pc' = [pc EXCEPT ![c] = "done"]
  /\ result' = [result EXCEPT ![c] = err]
  /\ FreshTx(c)

\* the unit of work returned err # nil, or the commit failed with err:
\* retry if err is retryable and retries are left, else return it
AfterFn(c, err) ==
  IF errIsRetryable(err)
  THEN /\ retryCount' = [retryCount EXCEPT ![c] = @ + 1]
       /\ IF retryCount[c] + 1 > MaxRetries
          THEN Return(c, ErrMaxRetries) /\ UNCHANGED locVars
          ELSE /\ pc' = [pc EXCEPT ![c] = FnEntry(op[c])]
               /\ UNCHANGED result
               /\ FreshTx(c)
               /\ FreshLocals(c)
  ELSE Return(c, err) /\ UNCHANGED <<retryCount, locVars>>

\* ExecuteTx begins: a transaction, no retry yet, the unit of work o entered
Begin(c, o) ==
  /\ pc[c] \in {"idle", "done"}
  /\ op' = [op EXCEPT ![c] = o]
  /\ runs' = [runs EXCEPT ![c] = @ + 1]
  /\ pc' = [pc EXCEPT ![c] = FnEntry(o)]
  /\ retryCount' = [retryCount EXCEPT ![c] = 0]
  /\ result' = [result EXCEPT ![c] = "pending"]
  /\ wrote' = [wrote EXCEPT ![c] = FALSE]
  /\ FreshTx(c)
  /\ FreshLocals(c)

\* the unit of work returned nil: ExecuteTx commits; the commit succeeds only
\* if the transaction validates, and may fail with the retryable error
Commit(c) ==
  /\ pc[c] = "commit"
  /\ \/ /\ ~txAborted[c]
        /\ Validates(c)
        /\ accounts' = Apply(accounts, wset[c])
        /\ wrote' = [wrote EXCEPT ![c] = @ \/ accounts' # accounts]
        /\ Return(c, ErrNil)
        /\ UNCHANGED <<retryCount, locVars>>
     \/ /\ AfterFn(c, ErrRetry)
        /\ UNCHANGED <<accounts, wrote>>
  /\ UNCHANGED <<nextID, acctIDs, mainVars, argVars>>

(* ------------------------------------------------------------------ *)
(* transferFunds(tx, fromID, toID, amount)                              *)
(* ------------------------------------------------------------------ *)

\* ExecuteTx(..., func(tx) { return transferFunds(tx, f, t, a) })
StartTransfer(c, f, t, a) ==
  /\ Begin(c, "transfer")
  /\ fromID' = [fromID EXCEPT ![c] = f]
  /\ toID' = [toID EXCEPT ![c] = t]
  /\ amount' = [amount EXCEPT ![c] = a]
  /\ UNCHANGED <<storeVars, acctIDs, numRows>>

\* db.First(&fromAccount, fromID): the error is dropped
ReadFrom(c) ==
  /\ pc[c] = "readFrom"
  /\ \E out \in FirstOutcomes(c, fromAccount[c], fromID[c]) :
       /\ fromAccount' = [fromAccount EXCEPT ![c] = out.acct]
       /\ fromErr' = [fromErr EXCEPT ![c] = out.err]
       /\ rset' = [rset EXCEPT ![c] = out.rset]
       /\ txAborted' = [txAborted EXCEPT ![c] = out.aborted]
  /\ pc' = [pc EXCEPT ![c] = "readTo"]
  /\ UNCHANGED <<storeVars, acctIDs, mainVars, argVars, i, toAccount, toErr, wset,
                 retryCount, result, wrote>>

\* db.First(&toAccount, toID): the error is dropped
ReadTo(c) ==
  /\ pc[c] = "readTo"
  /\ \E out \in FirstOutcomes(c, toAccount[c], toID[c]) :
       /\ toAccount' = [toAccount EXCEPT ![c] = out.acct]
       /\ toErr' = [toErr EXCEPT ![c] = out.err]
       /\ rset' = [rset EXCEPT ![c] = out.rset]
       /\ txAborted' = [txAborted EXCEPT ![c] = out.aborted]
  /\ pc' = [pc EXCEPT ![c] = "validate"]
  /\ UNCHANGED <<storeVars, acctIDs, mainVars, argVars, i, fromAccount, fromErr, wset,
                 retryCount, result, wrote>>

\* the balance check, then fromAccount.Balance -= amount and
\* toAccount.Balance += amount
Validate(c) ==
  /\ pc[c] = "validate"
  /\ IF Insufficient(fromAccount[c].Balance, amount[c])
     THEN AfterFn(c, ErrBalance)
     ELSE /\ fromAccount' = [fromAccount EXCEPT
                               ![c].Balance = Debit(@, amount[c])]
          /\ toAccount' = [toAccount EXCEPT
                             ![c].Balance = Credit(@, amount[c])]
          /\ pc' = [pc EXCEPT ![c] = "saveFrom"]
          /\ UNCHANGED <<i, fromErr, toErr, txVars, retryCount, result>>
  /\ UNCHANGED <<storeVars, acctIDs, mainVars, argVars, wrote>>

\* the first Save sent to db instead of the transaction tx (as insertRows
\* sends its Create): the debit is committed as the statement returns
SaveFromOnDb(c) ==
  /\ pc[c] = "saveFrom"
  /\ \/ /\ accounts' = Upsert(accounts, fromAccount[c].ID, fromAccount[c].Balance)
        /\ wrote' = [wrote EXCEPT ![c] = TRUE]
        /\ pc' = [pc EXCEPT ![c] = "saveTo"]
        /\ UNCHANGED <<locVars, txVars, retryCount, result>>
     \/ /\ AfterFn(c, ErrRetry)
        /\ UNCHANGED <<accounts, wrote>>
  /\ UNCHANGED <<nextID, acctIDs, mainVars, argVars>>

\* the first Save with its error dropped: the function goes on to the second
\* Save whatever the first answered
SaveFromErrDropped(c) ==
  /\ pc[c] = "saveFrom"
  /\ \E out \in SaveOutcomes(c, fromAccount[c]) :
       /\ fromAccount' = [fromAccount EXCEPT ![c] = out.acct]
       /\ wset' = [wset EXCEPT ![c] = out.wset]
       /\ txAborted' = [txAborted EXCEPT ![c] = out.aborted]
       /\ nextID' = out.nextID
  /\ pc' = [pc EXCEPT ![c] = "saveTo"]
  /\ UNCHANGED <<i, toAccount, fromErr, toErr, rset, retryCount, result>>
  /\ UNCHANGED <<accounts, acctIDs, mainVars, argVars, wrote>>

\* if err := db.Save(&fromAccount).Error; err != nil { return err }
SaveFrom(c) ==
  /\ pc[c] = "saveFrom"
  /\ \E out \in SaveOutcomes(c, fromAccount[c]) :
       IF out.err = ErrNil
       THEN /\ fromAccount' = [fromAccount EXCEPT ![c] = out.acct]
            /\ wset' = [wset EXCEPT ![c] = out.wset]
            /\ nextID' = out.nextID
            /\ pc' = [pc EXCEPT ![c] = "saveTo"]
            /\ UNCHANGED <<i, toAccount, fromErr, toErr, rset, txAborted,
                           retryCount, result>>
       ELSE /\ AfterFn(c, out.err)
            /\ UNCHANGED nextID
  /\ UNCHANGED <<accounts, acctIDs, mainVars, argVars, wrote>>

\* the second Save sent to db instead of the transaction tx: the credit is
\* committed as the statement returns
SaveToOnDb(c) ==
  /\ pc[c] = "saveTo"
  /\ \/ LET id == IF toAccount[c].ID = NilUUID THEN nextID ELSE toAccount[c].ID
        IN  /\ accounts' = Upsert(accounts, id, toAccount[c].Balance)
            /\ nextID' = IF toAccount[c].ID = NilUUID THEN nextID + 1 ELSE nextID
            /\ toAccount' = [toAccount EXCEPT ![c].ID = id]
            /\ wrote' = [wrote EXCEPT ![c] = TRUE]
            /\ pc' = [pc EXCEPT ![c] = "commit"]
            /\ UNCHANGED <<i, fromAccount, fromErr, toErr, txVars, retryCount, result>>
     \/ /\ AfterFn(c, ErrRetry)
        /\ UNCHANGED <<accounts, nextID, wrote>>
  /\ UNCHANGED <<acctIDs, mainVars, argVars>>

\* if err := db.Save(&toAccount).Error; err != nil { return err }; return nil
SaveTo(c) ==
  /\ pc[c] = "saveTo"
  /\ \E out \in SaveOutcomes(c, toAccount[c]) :
       IF out.err = ErrNil
       THEN /\ toAccount' = [toAccount EXCEPT ![c] = out.acct]
            /\ wset' = [wset EXCEPT ![c] = out.wset]
            /\ nextID' = out.nextID
            /\ pc' = [pc EXCEPT ![c] = "commit"]
            /\ UNCHANGED <<i, fromAccount, fromErr, toErr, rset, txAborted,
                           retryCount, result>>
       ELSE /\ AfterFn(c, out.err)
            /\ UNCHANGED nextID
  /\ UNCHANGED <<accounts, acctIDs, mainVars, argVars, wrote>>

(* ------------------------------------------------------------------ *)
(* insertRows(db, numRows)                                              *)
(* ------------------------------------------------------------------ *)

\* ExecuteTx(..., func(tx) { return insertRows(db, n) })
StartSeed(c, n) ==
  /\ Begin(c, "seed")
  /\ numRows' = [numRows EXCEPT ![c] = n]
  /\ UNCHANGED <<storeVars, acctIDs, fromID, toID, amount>>

\* one round of the loop.  db.Create goes to db, not to the transaction tx of
\* ExecuteTx: the row is committed as the statement returns.  After the last
\* round insertRows returns nil.
Create(c) ==
  /\ pc[c] = "create"
  /\ i[c] < numRows[c]
  /\ \/ \E r \in RandIntn :
          /\ accounts' = Upsert(accounts, nextID, NewBalance(r))
          /\ nextID' = nextID + 1
          /\ acctIDs' = Append(acctIDs, nextID)
          /\ i' = [i EXCEPT ![c] = @ + 1]
          /\ wrote' = [wrote EXCEPT ![c] = TRUE]
          /\ pc' = [pc EXCEPT ![c] = IF i[c] + 1 < numRows[c] THEN "create" ELSE "commit"]
          /\ UNCHANGED <<fromAccount, toAccount, fromErr, toErr, txVars,
                         retryCount, result>>
     \/ \E err \in {ErrRetry, ErrStore} :
          /\ AfterFn(c, err)
          /\ UNCHANGED <<storeVars, acctIDs, wrote>>
  /\ UNCHANGED <<mainVars, argVars>>

(* ------------------------------------------------------------------ *)
(* deleteAccounts(db)                                                   *)
(* ------------------------------------------------------------------ *)

\* db.Where("id IN ?", acctIDs).Delete(Account{}): one statement, which
\* deletes the rows or fails
deleteAccounts ==
  \E err \in {ErrNil, ErrStore} :
    /\ deleteErr' = err
    /\ accounts' = IF err = ErrNil THEN DeleteIn(accounts, Range(acctIDs))
                                   ELSE accounts

(* ------------------------------------------------------------------ *)
(* One step of a call of ExecuteTx                                      *)
(* ------------------------------------------------------------------ *)
TransferStep(c) ==
  \/ ReadFrom(c)
  \/ ReadTo(c)
  \/ Validate(c)
  \/ SaveFrom(c)
  \/ SaveTo(c)

(* ------------------------------------------------------------------ *)
(* Spec: concurrent callers of the transfer                             *)
(* ------------------------------------------------------------------ *)

\* a caller calls ExecuteTx with transferFunds and arguments of its choice, once
CallTransfer(c) ==
  /\ runs[c] = 0
  /\ \E f \in TransferIDs, t \in TransferIDs, a \in Amounts :
       StartTransfer(c, f, t, a)
  /\ UNCHANGED mainVars

IdleCallers ==
  /\ op = [c \in Callers |-> "none"]
  /\ pc = [c \in Callers |-> "idle"]
  /\ runs = [c \in Callers |-> 0]
  /\ fromID = [c \in Callers |-> NilUUID]
  /\ toID = [c \in Callers |-> NilUUID]
  /\ amount = [c \in Callers |-> 0]
  /\ numRows = [c \in Callers |-> 0]
  /\ i = [c \in Callers |-> 0]
  /\ fromAccount = [c \in Callers |-> ZeroAccount]
  /\ toAccount = [c \in Callers |-> ZeroAccount]
  /\ fromErr = [c \in Callers |-> ErrNil]
  /\ toErr = [c \in Callers |-> ErrNil]
  /\ rset = [c \in Callers |-> {}]
  /\ wset = [c \in Callers |-> EmptyRows]
  /\ txAborted = [c \in Callers |-> FALSE]
  /\ retryCount = [c \in Callers |-> 0]
  /\ result = [c \in Callers |-> "none"]
  /\ wrote = [c \in Callers |-> FALSE]

\* the table holds the rows of an earlier seeding
Init ==
  /\ accounts \in [SeededIDs -> InitBalances]
  /\ nextID = MissingID + 1
  /\ acctIDs = <<1, 2>>
  /\ mainpc = "library"
  /\ deleteErr = "none"
  /\ IdleCallers

Next ==
  \E c \in Callers :
    \/ CallTransfer(c)
    \/ TransferStep(c)
    \/ Commit(c)

Spec == Init /\ [][Next]_vars

(* ------------------------------------------------------------------ *)
(* SpecMain: func main                                                  *)
(* ------------------------------------------------------------------ *)

\* crdbgorm.ExecuteTx(..., insertRows(db, 5))
MainSeed ==
  /\ mainpc = "seed"
  /\ StartSeed(MainCaller, NumRows)
  /\ mainpc' = "seeding"
  /\ UNCHANGED deleteErr

\* the seeding returned (main prints its error and goes on); printBalances;
\* fromID := acctIDs[0]; toID := acctIDs[0:][rand.Intn(len(acctIDs))];
\* crdbgorm.ExecuteTx(..., transferFunds(tx, fromID, toID, transferAmt)).
\* acctIDs[0] of an empty acctIDs panics.
MainPick ==
  /\ mainpc = "seeding"
  /\ pc[MainCaller] = "done"
  /\ IF acctIDs = <<>>
     THEN /\ mainpc' = "panic"
          /\ UNCHANGED <<deleteErr, storeVars, acctIDs, argVars, locVars, txVars, ctlVars, wrote>>
     ELSE /\ \E k \in 1 .. Len(acctIDs) :
               StartTransfer(MainCaller, acctIDs[1], acctIDs[k], transferAmt)
          /\ mainpc' = "transferring"
          /\ UNCHANGED deleteErr

\* the transfer returned (main prints its error); printBalances;
\* deleteAccounts(db), its error dropped
MainDelete ==
  /\ mainpc = "transferring"
  /\ pc[MainCaller] = "done"
  /\ deleteAccounts
  /\ mainpc' = "done"
  /\ UNCHANGED <<nextID, acctIDs, argVars, locVars, txVars, ctlVars, wrote>>

InitMain ==
  /\ accounts = EmptyRows
  /\ nextID = 1
  /\ acctIDs = <<>>
  /\ mainpc = "seed"
  /\ deleteErr = "none"
  /\ IdleCallers

NextMain ==
  \/ MainSeed
  \/ Create(MainCaller)
  \/ MainPick
  \/ TransferStep(MainCaller)
  \/ Commit(MainCaller)
  \/ MainDelete

SpecMain == InitMain /\ [][NextMain]_vars

(* ------------------------------------------------------------------ *)
(* SpecShared: func main on a table that holds a row of another run    *)
(* ------------------------------------------------------------------ *)

\* the row another program left in the accounts table
OtherRows == [id \in {1} |-> 50]

InitShared ==
  /\ accounts = OtherRows
  /\ nextID = Cardinality(DOMAIN OtherRows) + 1
  /\ acctIDs = <<>>
  /\ mainpc = "seed"
  /\ deleteErr = "none"
  /\ IdleCallers

SpecShared == InitShared /\ [][NextMain]_vars

(* ------------------------------------------------------------------ *)
(* SpecOps: any sequence of seedings, transfers and deletions          *)
(* ------------------------------------------------------------------ *)

OpsReady ==
  /\ pc[MainCaller] \in {"idle", "done"}
  /\ runs[MainCaller] < MaxOps

OpsSeed ==
  /\ OpsReady
  /\ \E n \in SeedSizes : StartSeed(MainCaller, n)
  /\ UNCHANGED mainVars

\* ids the caller of SpecOps passes: those of Spec and the id seeded last
OpsIDs == TransferIDs \cup {acctIDs[Len(acctIDs)]}

OpsTransfer ==
  /\ OpsReady
  /\ \E f \in OpsIDs, t \in OpsIDs, a \in Amounts :
       StartTransfer(MainCaller, f, t, a)
  /\ UNCHANGED mainVars

OpsDelete ==
  /\ OpsReady
  /\ deleteAccounts
  /\ runs' = [runs EXCEPT ![MainCaller] = @ + 1]
  /\ UNCHANGED <<nextID, acctIDs, mainpc, op, fromID, toID, amount, numRows,
                 locVars, txVars, ctlVars, wrote>>

NextOps ==
  \/ OpsSeed
  \/ OpsTransfer
  \/ OpsDelete
  \/ Create(MainCaller)
  \/ TransferStep(MainCaller)
  \/ Commit(MainCaller)

\* two rows A and B holding 500 and 100
ScenarioRows == [id \in SeededIDs |-> IF id = 1 THEN 5 * transferAmt ELSE transferAmt]

\* the table holds the rows of an earlier seeding and transfer
InitOps ==
  /\ accounts \in [SeededIDs -> {50, transferAmt}] \cup {ScenarioRows}
  /\ nextID = MissingID + 1
  /\ acctIDs = <<1, 2>>
  /\ mainpc = "library"
  /\ deleteErr = "none"
  /\ IdleCallers

SpecOps == InitOps /\ [][NextOps]_vars

(* ------------------------------------------------------------------ *)
(* Properties                                                           *)
(* ------------------------------------------------------------------ *)

\* the AccountNotFound error of the specification, which no statement of
\* the program produces
ErrAccountNotFound == "AccountNotFound"

\* this step is the successful commit of caller c's transfer
CommitsTransfer(c) ==
  /\ op[c] = "transfer"
  /\ pc[c] = "commit"
  /\ pc'[c] = "done"
  /\ result'[c] = ErrNil

\* C1: conservation.  Every transfer between existing accounts that commits
\* leaves the sum of all balances as it was.
C1_Conservation ==
  [][\A c \in Callers :
       (CommitsTransfer(c) /\ fromID[c] \in DOMAIN accounts
                           /\ toID[c] \in DOMAIN accounts)
         => Total(accounts') = Total(accounts)]_vars

\* C2: self-transfer is a no-op.  When main's transfer has fromID = toID and
\* commits, the committed balances are unchanged.
C2_SelfTransferNoOp ==
  [][(CommitsTransfer(MainCaller) /\ fromID[MainCaller] = toID[MainCaller])
       => accounts' = accounts]_vars

\* C3: at most one committed execution per Run.  When main's seeding has
\* returned, the table holds exactly the NumRows rows of the one committed
\* attempt, and no row at all if no attempt committed.
C3_SeedCommittedOnce ==
  (mainpc = "seeding" /\ pc[MainCaller] = "done")
    => Cardinality(DOMAIN accounts) =
         IF result[MainCaller] = ErrNil THEN NumRows ELSE 0

\* C4: insufficient funds leaves the state unchanged.  Whenever the balance
\* read for fromID is lower than amount, the attempt ends at the balance check
\* with the balance error: no Save has been issued, the step changes no
\* committed row and the call has changed none; otherwise the attempt goes on
\* to its first Save.
C4_InsufficientFundsNoChange ==
  [][\A c \in Callers :
       (op[c] = "transfer" /\ pc[c] = "validate" /\ pc'[c] # pc[c]) =>
         IF fromAccount[c].Balance < amount[c]
         THEN /\ pc'[c] = "done"
              /\ result'[c] = ErrBalance
              /\ wset[c] = EmptyRows
              /\ accounts' = accounts
              /\ ~wrote'[c]
         ELSE pc'[c] = "saveFrom"]_vars

\* a call of transferFunds read a balance lower than amount and returned the
\* balance error
C4_Witness ==
  \E c \in Callers :
    /\ pc[c] = "done"
    /\ result[c] = ErrBalance
    /\ fromErr[c] = ErrNil
    /\ fromAccount[c].ID = fromID[c]
    /\ fromAccount[c].Balance < amount[c]

\* C5: non-negativity.  After any sequence of seedings, transfers and
\* deletions no committed balance is negative.
C5_NonNegative == \A id \in DOMAIN accounts : accounts[id] >= 0

\* a transfer has committed and left a balance of exactly zero
C5_Witness ==
  /\ op[MainCaller] = "transfer"
  /\ pc[MainCaller] = "done"
  /\ result[MainCaller] = ErrNil
  /\ wrote[MainCaller]
  /\ fromID[MainCaller] \in DOMAIN accounts
  /\ accounts[fromID[MainCaller]] = 0

C7_TerminalExactlyOnce ==
  \A c \in Callers :
    (pc[c] = "done" /\ result[c] = ErrBalance
       /\ fromErr[c] = ErrNil /\ toErr[c] = ErrNil)
      => retryCount[c] = 0 /\ ~wrote[c]

\* C7 amended: when an attempt of the unit of work returns an error that is
\* not retryable (the balance error; a Save refused by an aborted
\* transaction), ExecuteTx makes no further attempt: the call is over in that
\* step, it returns that error, nothing is committed by the call, and the
\* number of retries stays what the earlier conflicts made it.
C7_TerminalNotRetried ==
  [][\A c \in Callers :
       LET balance == pc[c] = "validate" /\ fromAccount[c].Balance < amount[c]
           aborted == pc[c] \in {"saveFrom", "saveTo"} /\ txAborted[c]
       IN  ((balance \/ aborted) /\ pc'[c] # pc[c]) =>
             /\ pc'[c] = "done"
             /\ result'[c] = IF balance THEN ErrBalance ELSE ErrTxAborted
             /\ retryCount'[c] = retryCount[c]
             /\ accounts' = accounts
             /\ ~wrote'[c]]_vars

\* a call returned the balance error from its second attempt, whose reads both
\* succeeded, the first attempt having ended in a retryable conflict
C7_Witness ==
  \E c \in Callers :
    /\ pc[c] = "done"
    /\ result[c] = ErrBalance
    /\ fromErr[c] = ErrNil
    /\ toErr[c] = ErrNil
    /\ retryCount[c] = 1

\* C8: bounded retry.  Every call of ExecuteTx in main is over or can take a
\* step; the retries never exceed the bound; a call that gave up made more
\* than one attempt, the bound plus one, and has committed nothing.
C8_BoundedRetry ==
  /\ mainpc \in {"done", "panic"} \/ ENABLED NextMain
  /\ \A c \in Callers :
       /\ retryCount[c] <= MaxRetries + 1
       /\ result[c] = ErrMaxRetries =>
            /\ retryCount[c] = MaxRetries + 1
            /\ retryCount[c] > 1
            /\ ~wrote[c]

\* C9: account not found is terminal.  A transfer whose read of fromID or of
\* toID found no row returns AccountNotFound, is not retried after it and has
\* committed nothing.
C9_AccountNotFoundTerminal ==
  \A c \in Callers :
    (op[c] = "transfer" /\ pc[c] = "done"
       /\ (fromErr[c] = ErrNotFound \/ toErr[c] = ErrNotFound))
      => result[c] = ErrAccountNotFound /\ ~wrote[c]

\* C10: safe concurrent invocation.  Under every interleaving of two callers
\* the committed table changes only by the commit of one transfer, which
\* applies that transfer's debit and credit once each to the rows as they are
\* committed: the commits are a serial order of the transfers, the sum of the
\* balances is conserved and no balance is negative.
C10_SerialOrder ==
  [][/\ \A c \in Callers :
          CommitsTransfer(c) =>
            /\ DOMAIN accounts' = DOMAIN accounts
            /\ \A x \in DOMAIN accounts :
                 accounts'[x] = accounts[x]
                                  - (IF x = fromID[c] THEN amount[c] ELSE 0)
                                  + (IF x = toID[c] THEN amount[c] ELSE 0)
            /\ Total(accounts') = Total(accounts)
            /\ \A x \in DOMAIN accounts' : accounts'[x] >= 0
     /\ accounts' # accounts => \E c \in Callers : CommitsTransfer(c)]_vars

\* C11: all-or-nothing visibility.  The writes of a transfer become visible to
\* other transactions in one step, its successful commit, which makes the row
\* saved for fromAccount and the row saved for toAccount visible together;
\* every other step of the call leaves the committed table as it is, and an
\* attempt that fails at its second Save or at its commit, after its first
\* Save succeeded, leaves the table unchanged and discards the debit.
C11_AllOrNothing ==
  [][\A c \in Callers :
       (op[c] = "transfer" /\ pc'[c] # pc[c]) =>
         IF CommitsTransfer(c)
         THEN /\ fromAccount[c].ID \in DOMAIN wset[c]
              /\ toAccount[c].ID \in DOMAIN wset[c]
              /\ \A x \in DOMAIN wset[c] :
                   x \in DOMAIN accounts' /\ accounts'[x] = wset[c][x]
         ELSE /\ accounts' = accounts
              /\ (pc[c] \in {"saveTo", "commit"} /\ pc'[c] # "commit")
                   => wset'[c] = EmptyRows]_vars

\* both Saves of a transfer between two distinct rows succeeded, the debit is
\* not visible in the committed table, and the commit is bound to fail
\* because another transfer has committed in between
C11_Witness ==
  \E c \in Callers :
    /\ op[c] = "transfer"
    /\ pc[c] = "commit"
    /\ fromID[c] # toID[c]
    /\ fromID[c] \in DOMAIN wset[c]
    /\ toID[c] \in DOMAIN wset[c]
    /\ accounts[fromID[c]] # wset[c][fromID[c]]
    /\ ~Validates(c)

\* C12: transfer result and frame.  A transfer of amount > 0 between two
\* distinct existing rows, the row of fromID holding at least amount, that
\* commits leaves fromID with its balance minus amount and toID with its
\* balance plus amount; the ids of the two rows, the set of rows, the balance
\* of every other row and acctIDs are unchanged.
C12_TransferResultAndFrame ==
  [][\A c \in Callers :
       LET f == fromID[c]
           t == toID[c]
           a == amount[c]
       IN  (CommitsTransfer(c) /\ f # t /\ a > 0
              /\ f \in DOMAIN accounts /\ t \in DOMAIN accounts
              /\ accounts[f] >= a) =>
             /\ accounts'[f] = accounts[f] - a
             /\ accounts'[t] = accounts[t] + a
             /\ DOMAIN accounts' = DOMAIN accounts
             /\ \A x \in DOMAIN accounts \ {f, t} : accounts'[x] = accounts[x]
             /\ acctIDs' = acctIDs]_vars

\* the transfer of 100 from A = 500 to B = 100 has committed and left 400 and
\* 200, beside a third row
C12_Witness ==
  /\ op[MainCaller] = "transfer"
  /\ pc[MainCaller] = "done"
  /\ result[MainCaller] = ErrNil
  /\ fromID[MainCaller] = 1
  /\ toID[MainCaller] = 2
  /\ amount[MainCaller] = transferAmt
  /\ {1, 2} \subseteq DOMAIN accounts
  /\ accounts[1] = 4 * transferAmt
  /\ accounts[2] = 2 * transferAmt
  /\ DOMAIN accounts \ {1, 2} # {}

\* C14: per-attempt step order.  Every attempt of a transfer goes through its
\* steps in the order read fromID, read toID, balance check, Save of
\* fromAccount, Save of toAccount, commit.  No write is issued before both
\* reads and the check are over; the second Save is issued only after the
\* first succeeded; the commit is attempted only after both succeeded; a
\* failed check ends the call at once with no write issued; and an attempt
\* leaves the order only to be retried from its first read or to end the call.
C14_StepOrder ==
  [][\A c \in Callers :
       (op'[c] = "transfer" /\ pc'[c] # pc[c]) =>
         /\ pc'[c] = "readFrom" =>
              pc[c] \in {"idle", "done", "saveFrom", "saveTo", "commit"}
         /\ pc'[c] = "readTo" => pc[c] = "readFrom"
         /\ pc'[c] = "validate" => pc[c] = "readTo"
         /\ pc'[c] = "saveFrom" =>
              pc[c] = "validate" /\ fromAccount[c].Balance >= amount[c]
         /\ pc'[c] = "saveTo" => pc[c] = "saveFrom"
         /\ pc'[c] = "commit" => pc[c] = "saveTo"
         /\ pc'[c] = "done" => pc[c] \in {"validate", "saveFrom", "saveTo", "commit"}
         /\ pc'[c] \in {"readFrom", "readTo", "validate", "saveFrom"} =>
              wset'[c] = EmptyRows
         /\ pc'[c] = "saveTo" => DOMAIN wset'[c] = {fromAccount'[c].ID}
         /\ pc'[c] = "commit" =>
              DOMAIN wset'[c] = {fromAccount'[c].ID, toAccount'[c].ID}
         /\ (pc[c] = "validate" /\ fromAccount[c].Balance < amount[c]) =>
              /\ pc'[c] = "done"
              /\ wset[c] = EmptyRows
              /\ wset'[c] = EmptyRows]_vars

\* the first attempt of a transfer between two distinct rows has issued both
\* Saves and is about to commit
C14_Witness ==
  \E c \in Callers :
    /\ op[c] = "transfer"
    /\ pc[c] = "commit"
    /\ retryCount[c] = 0
    /\ fromID[c] # toID[c]
    /\ DOMAIN wset[c] = {fromID[c], toID[c]}

\* C15: store errors inside the unit of work are not swallowed.  When a read
\* of transferFunds fails, the attempt ends there: it is retried from its
\* first read or the call returns that error, and the function does not go
\* on with the data it has; when the first Save fails, the second Save is
\* not issued.
C15_StoreErrorsReturned ==
  [][\A c \in Callers :
       (op[c] = "transfer" /\ pc'[c] # pc[c]) =>
         /\ (pc[c] = "readFrom" /\ fromErr'[c] # ErrNil) =>
              /\ pc'[c] \in {"readFrom", "done"}
              /\ pc'[c] = "done" => result'[c] = fromErr'[c]
         /\ (pc[c] = "readTo" /\ toErr'[c] # ErrNil) =>
              /\ pc'[c] \in {"readFrom", "done"}
              /\ pc'[c] = "done" => result'[c] = toErr'[c]
         /\ (pc[c] = "saveFrom" /\ wset'[c] = EmptyRows) =>
              pc'[c] \in {"readFrom", "done"}]_vars

\* C16: seeded accounts can always fund the demo transfer.  Every row that
\* insertRows created holds, until main's transfer starts, a balance between
\* transferAmt and transferAmt + 9999; and main's transfer of transferAmt
\* from acctIDs[0], with no other writer, never returns the balance error.
C16_SeedFundsTransfer ==
  /\ mainpc = "seeding" =>
       \A id \in DOMAIN accounts :
         accounts[id] \in transferAmt .. (transferAmt + RandRange - 1)
  /\ (mainpc = "transferring" /\ pc[MainCaller] = "done")
       => result[MainCaller] # ErrBalance

\* C17: teardown removes exactly this run's accounts.  acctIDs holds the ids
\* of the rows this run of main has persisted, those of retried seed attempts
\* included, each once: until deleteAccounts has deleted them they are the
\* rows of the table beside the rows of others; after deleteAccounts has
\* completed none of them remains; and the rows whose id is not in acctIDs
\* are at all times as they were.
C17_TeardownExact ==
  /\ Cardinality(Range(acctIDs)) = Len(acctIDs)
  /\ Range(acctIDs) \cap DOMAIN OtherRows = {}
  /\ deleteErr # ErrNil =>
       DOMAIN accounts = DOMAIN OtherRows \cup Range(acctIDs)
  /\ deleteErr = ErrNil =>
       /\ mainpc = "done"
       /\ DOMAIN accounts = DOMAIN OtherRows
  /\ \A id \in DOMAIN OtherRows :
       id \in DOMAIN accounts /\ accounts[id] = OtherRows[id]

\* deleteAccounts has deleted the rows of a seeding that persisted more rows
\* than one attempt creates, and the row of the other run is still there
C17_Witness ==
  /\ mainpc = "done"
  /\ deleteErr = ErrNil
  /\ Len(acctIDs) > NumRows
  /\ accounts = OtherRows

\* C18: main never selects the transfer parties from an empty id list.
\* Whenever the seeding has returned, with or without an error, and main is
\* about to read acctIDs[0], acctIDs is not empty, and main never panics.
C18_PartiesFromNonEmptyList ==
  /\ (mainpc = "seeding" /\ pc[MainCaller] = "done") => acctIDs # <<>>
  /\ mainpc # "panic"

====
